---------------------------- MODULE Spec2Model ----------------------------
(***************************************************************************)
(* Model of the chatroom server of python_chatroom: the accept loop and    *)
(* the per-connection handler threads of chatroom.py, and the registry     *)
(* operations of server.py (class Server).                                 *)
(*                                                                         *)
(* Threads: thread 0 is the main thread (the Acceptor, chatroom.main);     *)
(* thread c, for a connection c, is the daemon thread running              *)
(* handle_client(c).  A step of a thread is one statement that touches     *)
(* shared state or one socket call; the interpreter may switch threads     *)
(* between any two of them.                                                *)
(*                                                                         *)
(* Environment: each peer is "alive", has "closed" its end in an orderly   *)
(* way (recv returns b'', writes to it still succeed) or is "reset"        *)
(* (recv and sendall raise OSError, shutdown raises ENOTCONN).             *)
(*                                                                         *)
(* client_map is a Python dict: entries is its insertion-ordered entry     *)
(* array, live the keys still present (a removed key leaves a hole in the  *)
(* array), name the value of each key, keysize the slots of its key table  *)
(* (an insertion into a full table rebuilds the entry array without the    *)
(* holes).  A dict iterator keeps a position in the entry array, the size  *)
(* it saw when created and the number of keys it still expects, as         *)
(* CPython's dictiter does.                                                *)
(***************************************************************************)
EXTENDS Integers, Sequences, FiniteSets, TLC

\* Connections that arrive in a run.
MaxConns == 3
\* Chat messages the peers send in total.
MaxMsgs == 2
\* Peer failures (orderly close or reset) in total.
MaxFail == 2
\* Server.MAX_USERNAME_SIZE
MAX_USERNAME_SIZE == 20

NumConns == MaxConns
Conns == 1..NumConns
Main == 0
Threads == 0..NumConns
Free == -1
\* A string is the sequence of its code points: bytes.decode('ISO-8859-1')
\* maps each byte to the code point of the same number.
\* Python's None as the value dict.pop(client, None) gives for a missing key
\* (no string holds the code point -1).
None == << -1 >>
\* What a live peer types as a username (a closed peer yields b''): "a".
RawNames == { <<97>> }
\* n times the character ch
Rep(ch, n) == [i \in 1..n |-> ch]
\* Usernames typed around the limits of process_username: only whitespace,
\* padded, with an inner blank, and of MAX_USERNAME_SIZE - 1 .. + 2 characters.
RawInputs ==
    { <<32>>, <<9, 10>>, <<11, 133, 160>>, <<97>>, <<32, 97, 32>>, <<160, 97, 28>>,
      <<97, 32, 98>>,
      Rep(97, MAX_USERNAME_SIZE - 1), Rep(97, MAX_USERNAME_SIZE),
      <<32>> \o Rep(98, MAX_USERNAME_SIZE) \o <<10>>,
      Rep(97, MAX_USERNAME_SIZE + 1),
      Rep(97, MAX_USERNAME_SIZE - 1) \o <<32, 98>>,
      <<31>> \o Rep(99, MAX_USERNAME_SIZE + 2) }

\* What the environment is in a run: Server.MAX_CLIENTS (cap: 100 in
\* server.py, scaled down), the connections that arrive, the chat messages
\* the peers send, how many peers fail and which may (frail), whether a peer
\* may close in an orderly way (fin) or is only ever reset, whether the
\* operator interrupts the server, and the usernames the peers type (names).
\*   RoomFills: more connections than MAX_CLIENTS, one peer fails
\*   Chat:      three members relay messages, no peer fails
\*   Shutdown:  two members, a message, a peer failure and Ctrl-C
\*   Refused:   more connections than MAX_CLIENTS and Ctrl-C
\*   Broken:    three members, a message, and the first peers are reset
\*   Typing:    two clients type usernames of all shapes, one may close
RoomFills == [cap |-> MaxConns - 1, conns |-> MaxConns, msgs |-> 0,
              fails |-> MaxFail - 1, intr |-> FALSE, fin |-> TRUE, frail |-> Conns,
              names |-> RawNames]
Chat ==      [cap |-> MaxConns, conns |-> MaxConns, msgs |-> MaxMsgs,
              fails |-> 0, intr |-> FALSE, fin |-> TRUE, frail |-> Conns,
              names |-> RawNames]
Shutdown ==  [cap |-> MaxConns - 1, conns |-> MaxConns - 1, msgs |-> MaxMsgs - 1,
              fails |-> MaxFail - 1, intr |-> TRUE, fin |-> TRUE, frail |-> Conns,
              names |-> RawNames]
Refused ==   [cap |-> MaxConns - 1, conns |-> MaxConns, msgs |-> 0,
              fails |-> 0, intr |-> TRUE, fin |-> TRUE, frail |-> Conns,
              names |-> RawNames]
Broken ==    [cap |-> MaxConns, conns |-> MaxConns, msgs |-> MaxMsgs - 1,
              fails |-> MaxFail, intr |-> FALSE, fin |-> FALSE, frail |-> 1..MaxFail,
              names |-> RawNames]
Typing ==    [cap |-> MaxConns - 1, conns |-> MaxConns - 1, msgs |-> 0,
              fails |-> MaxFail - 1, intr |-> FALSE, fin |-> TRUE, frail |-> Conns,
              names |-> RawInputs]
Scenarios == {RoomFills, Chat, Shutdown, Refused}
ScenariosBroken == {Refused, Broken}

VARIABLES
    env,        \* the scenario: what the environment does in this run
    keysize,    \* client_map: the slots of the dict's key table
    entries,    \* client_map: the dict's entry array (keys in insertion order)
    live,       \* client_map: the keys present
    name,       \* client_map: the value of each key
    lock,       \* CLIENTS_LOCK: Free or the thread holding it
    sock,       \* server side of each connection: "new", "open", "closed"
    peer,       \* client side of each connection: "alive", "closed", "reset"
    pc,         \* position of each thread
    arg,        \* the connection a thread is working on (client / conn)
    ctx,        \* the call site of the disconnect_client a thread is in
    popped,     \* disconnect_client's local username
    iter,       \* the dict iterator of the loop a thread is in
    targets,    \* handle_client's local targets: the rest of the snapshot
    username,   \* handle_client's local username
    closing,    \* close_all_connections' local connections_to_close
    nread,      \* messages read from each connection so far
    nfail,      \* peer failures so far
    \* history, written and never read by the program
    everAdded,  \* connections add_client has inserted
    rejected,   \* "no", "gate" (refused by main) or "add" (add_client false)
    capNote,    \* the capacity notice to each connection: "none", "sent", "failed"
    leaveCnt,   \* leaveCnt[x][y]: leave notices for x written to y
    atRemoval,  \* the keys left in client_map when x was popped with a name
    chat,       \* chat[s][r]: the messages of s written to r, in order
    snaps,      \* snaps[s][k]: the keys of the snapshot taken for message k of s
    ownSend,    \* handlers that wrote to their own connection while relaying
    dcLog,      \* dcLog[x]: the disconnect_client calls on x that have ended
    lost,       \* <<s, r>>: a relay of s ended by an exception before writable r
    typed       \* typed[c]: the decoded bytes process_username received from c

prog == <<env, keysize, entries, live, name, lock, sock, peer, pc, arg, ctx, popped, iter,
          targets, username, closing, nread, nfail>>
hist == <<everAdded, rejected, capNote, leaveCnt, atRemoval, chat, snaps,
          ownSend, dcLog, lost, typed>>
vars == <<prog, hist>>

\* Server.MAX_CLIENTS
MAX_CLIENTS == env.cap
prog_but_pc == <<env, keysize, entries, live, name, lock, sock, peer, arg, ctx, popped, iter,
                 targets, username, closing, nread, nfail>>

---------------------------------------------------------------------------
\* Pure helpers

\* The characters str.strip() removes: those of str.isspace() among the 256
\* code points a decoded byte can be (\t \n \v \f \r, FS GS RS US, blank, NEL
\* and the no-break space).
IsSpace(ch) == ch \in {9, 10, 11, 12, 13, 28, 29, 30, 31, 32, 133, 160}

\* str.strip()
RECURSIVE LStrip(_)
LStrip(s) == IF s # <<>> /\ IsSpace(Head(s)) THEN LStrip(Tail(s)) ELSE s
RECURSIVE RStrip(_)
RStrip(s) == IF s # <<>> /\ IsSpace(s[Len(s)])
             THEN RStrip(SubSeq(s, 1, Len(s) - 1)) ELSE s
Strip(s) == RStrip(LStrip(s))

\* f"User_{n}"
RECURSIVE Decimal(_)
Decimal(n) == IF n < 10 THEN <<48 + n>>
              ELSE Decimal(n \div 10) \o <<48 + (n % 10)>>
UserN(n) == <<85, 115, 101, 114, 95>> \o Decimal(n)

\* Server.process_username, after the recv: raw is the decoded input, n is
\* len(self.client_map).
process_username_NoTrunc(raw, n) ==
    LET u == Strip(raw) IN IF u = <<>> THEN UserN(n) ELSE u
process_username(raw, n) ==
    LET u == Strip(raw) IN
    IF Len(u) > MAX_USERNAME_SIZE THEN SubSeq(u, 1, MAX_USERNAME_SIZE)
    ELSE IF u = <<>> THEN UserN(n)
    ELSE u

\* `not username` in disconnect_client
NotUsername_Never(u) == FALSE
NotUsername(u) == u = None \/ u = <<>>

\* len(self.client_map)
Size == Cardinality(live)

\* Server.is_there_room
is_there_room == Size < MAX_CLIENTS

\* The size test of Server.add_client
add_client_NoCheck == TRUE
add_client_Loose == Size <= MAX_CLIENTS
add_client_room == Size < MAX_CLIENTS

\* dict(self.client_map): the keys present, in insertion order
RECURSIVE Filter(_, _)
Filter(s, S) == IF s = <<>> THEN <<>>
                ELSE IF Head(s) \in S THEN <<Head(s)>> \o Filter(Tail(s), S)
                ELSE Filter(Tail(s), S)
LiveSeq == Filter(entries, live)

\* iter(self.client_map.keys())
NewIter == [pos |-> 0, used |-> Size, len |-> Size]

\* next() of a dict key iterator: "error" is RuntimeError (the dict changed
\* size, or a key turned up that the iterator did not expect), "stop" is
\* StopIteration, "item" yields conn and moves the iterator to `it`.
IterNext(it) ==
    IF it.used # Size THEN [kind |-> "error"]
    ELSE LET rest == {i \in (it.pos + 1)..Len(entries) : entries[i] \in live} IN
         IF rest = {} THEN [kind |-> "stop"]
         ELSE IF it.len = 0 THEN [kind |-> "error"]
         ELSE LET i == CHOOSE j \in rest : \A k \in rest : j <= k IN
              [kind |-> "item", conn |-> entries[i],
               it |-> [pos |-> i, used |-> it.used, len |-> it.len - 1]]

\* What a socket call on c may find the peer to be: as it was, or closed or
\* reset since the last call on c.  A peer fails between two calls of the
\* server; the server can tell only at its next call on that socket.
Observe(c) ==
    {peer[c]}
    \cup (IF sock[c] = "open" /\ peer[c] = "alive" /\ nfail < env.fails
             /\ c \in env.frail
          THEN (IF env.fin THEN {"closed", "reset"} ELSE {"reset"}) ELSE {})
    \cup (IF sock[c] = "open" /\ peer[c] = "closed" THEN {"reset"} ELSE {})

\* The socket call on c found the peer to be p.
Seen(c, p) ==
    /\ peer' = [peer EXCEPT ![c] = p]
    /\ nfail' = IF peer[c] = "alive" /\ p # "alive" THEN nfail + 1 ELSE nfail

\* conn.sendall(data) returns: the server has not closed the socket and the
\* peer, found to be p, has not reset the connection.  Otherwise it raises
\* OSError.
SendOK(c, p) == sock[c] = "open" /\ p # "reset"

\* client.shutdown(SHUT_RDWR) in close_all_connections returns.  It raises
\* EBADF on a socket already closed and ENOTCONN on a reset connection.
ShutdownOK(c, p) == sock[c] = "open" /\ p # "reset"

\* `conn is not client` in the broadcast loop of handle_client
IsRecipient_All(conn, client) == TRUE
IsRecipient(conn, client) == conn # client

\* The keys of a snapshot the broadcast loop of `client` writes to.
RECURSIVE Recipients(_, _)
Recipients(s, client) ==
    IF s = <<>> THEN <<>>
    ELSE IF IsRecipient(Head(s), client)
         THEN <<Head(s)>> \o Recipients(Tail(s), client)
         ELSE Recipients(Tail(s), client)

\* The process is running: main has not returned.
Running == pc[Main] # "exited"

\* main's local `client`: the connection accept_connection returned last
\* (0 before the first).  It is rebound only by the next accept.
MainClient ==
    IF \A c \in Conns : sock[c] = "new" THEN 0
    ELSE CHOOSE c \in Conns :
             sock[c] # "new" /\ \A d \in Conns : sock[d] # "new" => d <= c

\* The handler of c has ended in the handshake: no statement has closed its
\* socket.  The thread's references to the socket object are gone, and
\* CPython closes the socket when the last reference goes: main's `client`,
\* for as long as it names c.
Unclosed(c) == pc[c] = "crashed" /\ sock[c] = "open"

Inc2(n) == IF n < 2 THEN n + 1 ELSE 2

RECURSIVE SumTo(_, _)
SumTo(f, n) == IF n = 0 THEN 0 ELSE f[n] + SumTo(f, n - 1)
\* Messages read from all connections so far.
TotalRead == SumTo(nread, NumConns)

\* The entries a key table of `size` slots holds (two thirds of the slots).
Usable(size) == (2 * size) \div 3

\* The least of p, 2p, 4p, ... that is at least n.
RECURSIVE Pow2AtLeast(_, _)
Pow2AtLeast(n, p) == IF p >= n THEN p ELSE Pow2AtLeast(n, 2 * p)

\* The slots of the key table CPython builds when an insertion finds the
\* table of a dict of `used` keys full: the power of two above (3*used | 8) - 1,
\* where | sets the bit of value 8.
GrownSize(used) ==
    LET m == 3 * used
        mm == IF (m \div 8) % 2 = 1 THEN m ELSE m + 8
    IN  Pow2AtLeast(mm, 8)

\* self.client_map[client] = username for a new key: the key goes to the end
\* of the entry array; when the key table is full the array is first rebuilt
\* from the keys present, in their order.
InsertResizes == Len(entries) >= Usable(keysize)
InsertEntries(c) ==
    IF InsertResizes THEN Append(LiveSeq, c) ELSE Append(entries, c)
InsertSize == IF InsertResizes THEN GrownSize(Size) ELSE keysize

\* self.client_map.pop(client, None): the keys left
PopKeys_Keep(d) == live
PopKeys(d) == live \ {d}

\* self.client_map.clear(): the keys left
ClearKeys_Keep == live
ClearKeys == {}

---------------------------------------------------------------------------
\* The server after construction (Server.__init__, listen_for_connections),
\* in one of the scenarios S.
Start(S) ==
    /\ env \in S
    /\ keysize = 8
    /\ entries = <<>>
    /\ live = {}
    /\ name = [c \in Conns |-> None]
    /\ lock = Free
    /\ sock = [c \in Conns |-> "new"]
    /\ peer = [c \in Conns |-> "alive"]
    /\ pc = [t \in Threads |-> IF t = Main THEN "accept" ELSE "idle"]
    /\ arg = [t \in Threads |-> 0]
    /\ ctx = [t \in Threads |-> "none"]
    /\ popped = [t \in Threads |-> None]
    /\ iter = [t \in Threads |-> [pos |-> 0, used |-> 0, len |-> 0]]
    /\ targets = [t \in Threads |-> <<>>]
    /\ username = [c \in Conns |-> None]
    /\ closing = <<>>
    /\ nread = [c \in Conns |-> 0]
    /\ nfail = 0
    /\ everAdded = {}
    /\ rejected = [c \in Conns |-> "no"]
    /\ capNote = [c \in Conns |-> "none"]
    /\ leaveCnt = [x \in Conns |-> [y \in Conns |-> 0]]
    /\ atRemoval = [x \in Conns |-> {}]
    /\ chat = [s \in Conns |-> [r \in Conns |-> <<>>]]
    /\ snaps = [c \in Conns |-> <<>>]
    /\ ownSend = {}
    /\ dcLog = [c \in Conns |-> {}]
    /\ lost = {}
    /\ typed = [c \in Conns |-> None]

Init == Start(Scenarios)
InitBroken == Start(ScenariosBroken)

---------------------------------------------------------------------------
\* Server.disconnect_client, called by thread t on connection arg[t] from
\* the call site ctx[t]:
\*   "reject"     chatroom.py:111   main, after the capacity notice
\*   "reject_exc" chatroom.py:111   main, finally, while KeyboardInterrupt propagates
\*   "add_fail"   chatroom.py:26    handler, add_client returned False (lock held)
\*   "join_fail"  chatroom.py:23    handler, the join notice raised (lock held)
\*   "fanout"     chatroom.py:61    handler, a write to a recipient raised
\*   "final"      chatroom.py:63    handler, finally, after a break
\*   "final_exc"  chatroom.py:63    handler, finally, while an exception propagates

NoIter == [pos |-> 0, used |-> 0, len |-> 0]

\* CLIENTS_LOCK when disconnect_client of thread t is left, by return or by
\* exception: the `with CLIENTS_LOCK` around the call (chatroom.py:22, 25)
\* releases the lock; the other call sites hold none.
WithExit_Keep(t) == lock
WithExit(t) == IF ctx[t] \in {"add_fail", "join_fail"} THEN Free ELSE lock

Ended(t, raised) ==
    [dcLog EXCEPT ![arg[t]] =
        @ \cup {[by |-> t, site |-> ctx[t],
                 member |-> ~NotUsername(popped[t]), raised |-> raised]}]

\* disconnect_client returns to its caller; its locals are gone.
Return(t) ==
    /\ dcLog' = Ended(t, FALSE)
    /\ pc' = [pc EXCEPT ![t] =
                CASE ctx[t] = "reject" -> "accept"
                  [] ctx[t] = "reject_exc" -> "ca_copy"
                  [] ctx[t] = "add_fail" -> "done"
                  [] ctx[t] = "join_fail" -> "recv"
                  [] ctx[t] = "fanout" ->
                       IF targets[t] = <<>> THEN "recv" ELSE "fanout"
                  [] ctx[t] = "final" -> "done"
                  [] OTHER -> "crashed"]
    /\ lock' = WithExit(t)
    /\ arg' = [arg EXCEPT ![t] = 0]
    /\ ctx' = [ctx EXCEPT ![t] = "none"]
    /\ popped' = [popped EXCEPT ![t] = None]
    /\ iter' = [iter EXCEPT ![t] = NoIter]
    /\ UNCHANGED <<targets, lost>>

\* An exception leaves disconnect_client (only its leave loop raises, in the
\* step that fixes peer': the recipients left unwritten that can be written
\* to are those not reset as of the failed call).  From
\* the broadcast loop it reaches the finally of handle_client, which calls
\* disconnect_client(client) and lets the exception end the thread; under a
\* `with CLIENTS_LOCK` it releases the lock on the way out; in main it is
\* caught by no except clause, so main's finally closes the listening socket
\* and main ends.
Raise(t) ==
    /\ dcLog' = Ended(t, TRUE)
    /\ IF ctx[t] = "fanout"
       THEN /\ pc' = [pc EXCEPT ![t] = "dc_pop"]
            /\ arg' = [arg EXCEPT ![t] = t]
            /\ ctx' = [ctx EXCEPT ![t] = "final_exc"]
            /\ lost' = lost \cup
                 {<<t, r>> : r \in {x \in Conns :
                      /\ \E i \in 1..Len(targets[t]) : targets[t][i] = x
                      /\ SendOK(x, peer'[x])}}
       ELSE /\ pc' = [pc EXCEPT ![t] = IF t = Main THEN "exited" ELSE "crashed"]
            /\ arg' = [arg EXCEPT ![t] = 0]
            /\ ctx' = [ctx EXCEPT ![t] = "none"]
            /\ UNCHANGED lost
    /\ lock' = WithExit(t)
    /\ targets' = [targets EXCEPT ![t] = <<>>]
    /\ popped' = [popped EXCEPT ![t] = None]
    /\ iter' = [iter EXCEPT ![t] = NoIter]

\* server.py:100  username = self.client_map.pop(client, None)
DcPop(t) ==
    /\ Running /\ pc[t] = "dc_pop"
    /\ LET d == arg[t] IN
       /\ popped' = [popped EXCEPT ![t] = IF d \in live THEN name[d] ELSE None]
       /\ live' = PopKeys(d)
       /\ name' = [name EXCEPT ![d] = IF d \in live' THEN @ ELSE None]
       /\ atRemoval' = IF d \in live
                       THEN [atRemoval EXCEPT ![d] = live \ {d}] ELSE atRemoval
    /\ pc' = [pc EXCEPT ![t] = "dc_close"]
    /\ UNCHANGED <<env, keysize, entries, lock, sock, peer, arg, ctx, iter, targets,
                   username, closing, nread, nfail>>
    /\ UNCHANGED <<everAdded, rejected, capNote, leaveCnt, chat, snaps, ownSend,
                   dcLog, lost>>
    /\ UNCHANGED typed

\* server.py:101-114  shutdown (ENOTCONN and EBADF are swallowed), close,
\* `if not username: return`.
DcClose(t) ==
    /\ Running /\ pc[t] = "dc_close"
    /\ sock' = [sock EXCEPT ![arg[t]] = "closed"]
    /\ IF NotUsername(popped[t])
       THEN Return(t)
       ELSE /\ pc' = [pc EXCEPT ![t] = "dc_iter"]
            /\ UNCHANGED <<lock, arg, ctx, popped, iter, targets, dcLog, lost>>
    /\ UNCHANGED <<env, keysize, entries, live, name, peer, username, closing, nread, nfail>>
    /\ UNCHANGED <<everAdded, rejected, capNote, leaveCnt, atRemoval, chat,
                   snaps, ownSend>>
    /\ UNCHANGED typed

\* server.py:116-118  the leave message is built and logged, then the leave
\* loop takes its iterator of self.client_map.keys().
DcIter(t) ==
    /\ Running /\ pc[t] = "dc_iter"
    /\ iter' = [iter EXCEPT ![t] = NewIter]
    /\ pc' = [pc EXCEPT ![t] = "dc_leave"]
    /\ UNCHANGED <<env, keysize, entries, live, name, lock, sock, peer, arg, ctx,
                   popped, targets, username, closing, nread, nfail>>
    /\ UNCHANGED hist

\* server.py:118-121  one round of the leave loop: next(), then sendall.
DcLeave(t) ==
    /\ Running /\ pc[t] = "dc_leave"
    /\ LET r == IterNext(iter[t]) IN
       CASE r.kind = "stop" ->
              /\ Return(t)
              /\ UNCHANGED <<leaveCnt, ownSend, peer, nfail>>
         [] r.kind = "error" ->
              /\ UNCHANGED <<leaveCnt, ownSend, peer, nfail>>
              /\ Raise(t)
         [] OTHER ->
              \E p \in Observe(r.conn) :
                 /\ Seen(r.conn, p)
                 /\ IF SendOK(r.conn, p)
                    THEN /\ iter' = [iter EXCEPT ![t] = r.it]
                         /\ leaveCnt' = [leaveCnt EXCEPT ![arg[t]][r.conn] = Inc2(@)]
                         /\ ownSend' = IF ctx[t] = "fanout" /\ r.conn = t
                                       THEN ownSend \cup {t} ELSE ownSend
                         /\ UNCHANGED <<pc, lock, arg, ctx, popped, targets,
                                        dcLog, lost>>
                    ELSE /\ Raise(t)
                         /\ UNCHANGED <<leaveCnt, ownSend>>
    /\ UNCHANGED <<env, keysize, entries, live, name, sock, username, closing, nread>>
    /\ UNCHANGED <<everAdded, rejected, capNote, atRemoval, chat, snaps>>
    /\ UNCHANGED typed

---------------------------------------------------------------------------
\* chatroom.handle_client, the thread of connection c

\* chatroom.py:10-11  ask_for_username and process_username.  On a reset
\* connection sendall or recv raises and the thread ends with the exception
\* (its socket is closed with its last reference, at once when main's
\* `client` names a later connection); after an orderly close recv returns
\* b''.
Handshake(c) ==
    /\ Running /\ pc[c] = "handshake"
    /\ \E p \in Observe(c) :
         /\ Seen(c, p)
         /\ IF p = "reset"
            THEN /\ pc' = [pc EXCEPT ![c] = "crashed"]
                 /\ sock' = IF MainClient # c
                            THEN [sock EXCEPT ![c] = "closed"] ELSE sock
                 /\ UNCHANGED <<username, typed>>
            ELSE /\ \E raw \in (IF p = "closed" THEN {<<>>} ELSE env.names) :
                      /\ typed' = [typed EXCEPT ![c] = raw]
                      /\ username' = [username EXCEPT ![c] =
                                         process_username(raw, Size)]
                 /\ pc' = [pc EXCEPT ![c] = "add"]
                 /\ UNCHANGED sock
    /\ UNCHANGED <<env, keysize, entries, live, name, lock, arg, ctx, popped, iter,
                   targets, closing, nread>>
    /\ UNCHANGED <<everAdded, rejected, capNote, leaveCnt, atRemoval, chat, snaps,
                   ownSend, dcLog, lost>>

\* chatroom.py:13-14 and server.py:49-58  add_client under CLIENTS_LOCK
AddClient(c) ==
    /\ Running /\ pc[c] = "add" /\ lock = Free
    /\ IF add_client_room
       THEN /\ entries' = InsertEntries(c)
            /\ keysize' = InsertSize
            /\ live' = live \cup {c}
            /\ name' = [name EXCEPT ![c] = username[c]]
            /\ everAdded' = everAdded \cup {c}
            /\ pc' = [pc EXCEPT ![c] = "join_lock"]
            /\ UNCHANGED rejected
       ELSE /\ rejected' = [rejected EXCEPT ![c] = "add"]
            /\ pc' = [pc EXCEPT ![c] = "add_fail"]
            /\ UNCHANGED <<keysize, entries, live, name, everAdded>>
    /\ UNCHANGED <<env, lock, sock, peer, arg, ctx, popped, iter, targets, username,
                   closing, nread, nfail>>
    /\ UNCHANGED <<capNote, leaveCnt, atRemoval, chat, snaps, ownSend, dcLog, lost>>
    /\ UNCHANGED typed

\* chatroom.py:25-26  with CLIENTS_LOCK: serv.disconnect_client(client)
AddFail(c) ==
    /\ Running /\ pc[c] = "add_fail" /\ lock = Free
    /\ lock' = c
    /\ pc' = [pc EXCEPT ![c] = "dc_pop"]
    /\ arg' = [arg EXCEPT ![c] = c]
    /\ ctx' = [ctx EXCEPT ![c] = "add_fail"]
    /\ UNCHANGED <<env, keysize, entries, live, name, sock, peer, popped, iter, targets,
                   username, closing, nread, nfail>>
    /\ UNCHANGED hist

\* chatroom.py:18-19 and server.py:151  take the lock; client_map[client]
\* raises KeyError when the key has been popped meanwhile (the lock is
\* released on the way to the except clause).
JoinLock(c) ==
    /\ Running /\ pc[c] = "join_lock" /\ lock = Free
    /\ IF c \in live
       THEN /\ lock' = c
            /\ pc' = [pc EXCEPT ![c] = "join_new"]
       ELSE /\ pc' = [pc EXCEPT ![c] = "join_fail"]
            /\ UNCHANGED lock
    /\ UNCHANGED <<env, keysize, entries, live, name, sock, peer, arg, ctx, popped,
                   iter, targets, username, closing, nread, nfail>>
    /\ UNCHANGED hist

\* server.py:152-153  the join message is built, then the join loop takes its
\* iterator of self.client_map.keys().
JoinNew(c) ==
    /\ Running /\ pc[c] = "join_new"
    /\ iter' = [iter EXCEPT ![c] = NewIter]
    /\ pc' = [pc EXCEPT ![c] = "join_iter"]
    /\ UNCHANGED <<env, keysize, entries, live, name, lock, sock, peer, arg, ctx,
                   popped, targets, username, closing, nread, nfail>>
    /\ UNCHANGED hist

\* server.py:153-157 and chatroom.py:20  one round of the join loop (next(),
\* then sendall to a key other than client); after the last round
\* send_welcome_msg.  Any exception releases the lock and reaches the except
\* clause of chatroom.py:21.
JoinIter(c) ==
    /\ Running /\ pc[c] = "join_iter"
    /\ LET r == IterNext(iter[c]) IN
       CASE r.kind = "stop" ->
              \E p \in Observe(c) :
                 /\ Seen(c, p)
                 /\ lock' = Free
                 /\ pc' = [pc EXCEPT ![c] =
                             IF SendOK(c, p) THEN "recv" ELSE "join_fail"]
                 /\ iter' = [iter EXCEPT ![c] = NoIter]
         [] r.kind = "error" ->
              /\ lock' = Free
              /\ pc' = [pc EXCEPT ![c] = "join_fail"]
              /\ iter' = [iter EXCEPT ![c] = NoIter]
              /\ UNCHANGED <<peer, nfail>>
         [] r.conn = c ->
              /\ iter' = [iter EXCEPT ![c] = r.it]
              /\ UNCHANGED <<lock, pc, peer, nfail>>
         [] OTHER ->
              \E p \in Observe(r.conn) :
                 /\ Seen(r.conn, p)
                 /\ IF SendOK(r.conn, p)
                    THEN /\ iter' = [iter EXCEPT ![c] = r.it]
                         /\ UNCHANGED <<lock, pc>>
                    ELSE /\ lock' = Free
                         /\ pc' = [pc EXCEPT ![c] = "join_fail"]
                         /\ iter' = [iter EXCEPT ![c] = NoIter]
    /\ UNCHANGED <<env, keysize, entries, live, name, sock, arg, ctx, popped, targets,
                   username, closing, nread>>
    /\ UNCHANGED hist

\* chatroom.py:21-23  except Exception: with CLIENTS_LOCK: disconnect_client
JoinFail(c) ==
    /\ Running /\ pc[c] = "join_fail" /\ lock = Free
    /\ lock' = c
    /\ pc' = [pc EXCEPT ![c] = "dc_pop"]
    /\ arg' = [arg EXCEPT ![c] = c]
    /\ ctx' = [ctx EXCEPT ![c] = "join_fail"]
    /\ UNCHANGED <<env, keysize, entries, live, name, sock, peer, popped, iter, targets,
                   username, closing, nread, nfail>>
    /\ UNCHANGED hist

\* chatroom.py:30-48  client.recv: a message of the peer; or b'' (the peer
\* closed, or the server shut the socket down) or an OSError (the peer reset,
\* or the server closed the socket), which break to the finally of
\* chatroom.py:62-63.  While the peer is alive and silent, recv blocks.
Recv(c) ==
    /\ Running /\ pc[c] = "recv"
    /\ \E p \in Observe(c) :
         /\ Seen(c, p)
         /\ IF sock[c] = "closed" \/ p # "alive"
            THEN /\ pc' = [pc EXCEPT ![c] = "dc_pop"]
                 /\ arg' = [arg EXCEPT ![c] = c]
                 /\ ctx' = [ctx EXCEPT ![c] = "final"]
                 /\ UNCHANGED nread
            ELSE /\ TotalRead < env.msgs
                 /\ nread' = [nread EXCEPT ![c] = @ + 1]
                 /\ pc' = [pc EXCEPT ![c] = "snapshot"]
                 /\ UNCHANGED <<arg, ctx>>
    /\ UNCHANGED <<env, keysize, entries, live, name, lock, sock, popped, iter, targets,
                   username, closing>>
    /\ UNCHANGED hist

\* chatroom.py:51-54  with CLIENTS_LOCK: targets = dict(serv.client_map).
\* The loop that follows skips the keys that fail `conn is not client`; the
\* snapshot is the thread's own, so they are dropped here.
Snapshot(c) ==
    /\ Running /\ pc[c] = "snapshot" /\ lock = Free
    /\ LET ts == Recipients(LiveSeq, c) IN
       /\ targets' = [targets EXCEPT ![c] = ts]
       /\ pc' = [pc EXCEPT ![c] = IF ts = <<>> THEN "recv" ELSE "fanout"]
    /\ snaps' = [snaps EXCEPT ![c] = Append(@, live)]
    /\ UNCHANGED <<env, keysize, entries, live, name, lock, sock, peer, arg, ctx, popped,
                   iter, username, closing, nread, nfail>>
    /\ UNCHANGED <<everAdded, rejected, capNote, leaveCnt, atRemoval, chat,
                   ownSend, dcLog, lost>>
    /\ UNCHANGED typed

\* chatroom.py:53-61  one round of the broadcast loop: sendall to the next
\* recipient, and disconnect_client(conn) when it raises OSError; after the
\* last round back to recv.
Fanout(c) ==
    /\ Running /\ pc[c] = "fanout"
    /\ LET conn == Head(targets[c]) IN
       \E p \in Observe(conn) :
         /\ Seen(conn, p)
         /\ targets' = [targets EXCEPT ![c] = Tail(@)]
         /\ IF SendOK(conn, p)
            THEN /\ chat' = [chat EXCEPT ![c][conn] = Append(@, nread[c])]
                 /\ pc' = [pc EXCEPT ![c] =
                             IF Tail(targets[c]) = <<>> THEN "recv" ELSE "fanout"]
                 /\ UNCHANGED <<arg, ctx>>
            ELSE /\ pc' = [pc EXCEPT ![c] = "dc_pop"]
                 /\ arg' = [arg EXCEPT ![c] = conn]
                 /\ ctx' = [ctx EXCEPT ![c] = "fanout"]
                 /\ UNCHANGED chat
    /\ UNCHANGED <<env, keysize, entries, live, name, lock, sock, popped, iter, username,
                   closing, nread>>
    /\ UNCHANGED <<everAdded, rejected, capNote, leaveCnt, atRemoval, snaps,
                   ownSend, dcLog, lost>>
    /\ UNCHANGED typed

---------------------------------------------------------------------------
\* chatroom.main, the accept loop

\* The connection accept() returns next.
NextConn == CHOOSE c \in Conns : sock[c] = "new" /\ \A d \in Conns : sock[d] = "new" => c <= d

\* chatroom.py:94  client, _, _ = serv.accept_connection(): `client` is
\* rebound, and with it goes the last reference to the socket of the
\* connection accepted before when its handler has ended in the handshake.
Accept ==
    /\ pc[Main] = "accept"
    /\ \E c \in 1..env.conns : sock[c] = "new"
    /\ sock' = [c \in Conns |->
                  IF c = NextConn THEN "open"
                  ELSE IF c = MainClient /\ Unclosed(c) THEN "closed"
                  ELSE sock[c]]
    /\ arg' = [arg EXCEPT ![Main] = NextConn]
    /\ pc' = [pc EXCEPT ![Main] = "gate"]
    /\ UNCHANGED <<env, keysize, entries, live, name, lock, peer, ctx, popped, iter, targets,
                   username, closing, nread, nfail>>
    /\ UNCHANGED hist

\* chatroom.py:95-97  is_there_room under CLIENTS_LOCK, and the branch on
\* its result
Gate ==
    /\ pc[Main] = "gate" /\ lock = Free
    /\ IF is_there_room
       THEN /\ pc' = [pc EXCEPT ![Main] = "start"]
            /\ UNCHANGED rejected
       ELSE /\ pc' = [pc EXCEPT ![Main] = "reject_send"]
            /\ rejected' = [rejected EXCEPT ![arg[Main]] = "gate"]
    /\ UNCHANGED prog_but_pc
    /\ UNCHANGED <<everAdded, capNote, leaveCnt, atRemoval, chat, snaps, ownSend,
                   dcLog, lost>>
    /\ UNCHANGED typed

\* chatroom.py:99-104  the handler thread of the connection is created and
\* started, after CLIENTS_LOCK has been released
StartThread ==
    /\ pc[Main] = "start"
    /\ pc' = [pc EXCEPT ![Main] = "accept", ![arg[Main]] = "handshake"]
    /\ UNCHANGED prog_but_pc
    /\ UNCHANGED hist

\* chatroom.py:106-111  max_capacity_notification (an OSError is caught), then
\* finally disconnect_client(client)
RejectSend ==
    /\ pc[Main] = "reject_send"
    /\ \E p \in Observe(arg[Main]) :
         /\ Seen(arg[Main], p)
         /\ capNote' = [capNote EXCEPT ![arg[Main]] =
                          IF SendOK(arg[Main], p) THEN "sent" ELSE "failed"]
    /\ pc' = [pc EXCEPT ![Main] = "dc_pop"]
    /\ ctx' = [ctx EXCEPT ![Main] = "reject"]
    /\ UNCHANGED <<env, keysize, entries, live, name, lock, sock, arg, popped, iter,
                   targets, username, closing, nread>>
    /\ UNCHANGED <<everAdded, rejected, leaveCnt, atRemoval, chat, snaps, ownSend,
                   dcLog, lost>>
    /\ UNCHANGED typed

\* chatroom.py:112-113  KeyboardInterrupt (Ctrl-C, once), raised in the main
\* thread wherever it stands in the try of chatroom.py:93-111:
\*   in accept, at the lock or before the thread is started: on to
\*     close_all_connections;
\*   in max_capacity_notification, on entry (nothing is sent), after sendall
\*     has returned (server.py:142-146) or after it has raised OSError
\*     (chatroom.py:108-109): the finally of chatroom.py:110-111 runs
\*     disconnect_client(client), then on to close_all_connections;
\*   in that disconnect_client: the call is left where it stands (the finally
\*     of server.py:109-110 closes the socket when shutdown had been reached),
\*     then on to close_all_connections.
Interrupt ==
    /\ env.intr
    /\ \/ /\ pc[Main] \in {"accept", "gate", "start"}
          /\ pc' = [pc EXCEPT ![Main] = "ca_copy"]
          /\ UNCHANGED <<sock, peer, nfail, arg, ctx, popped, dcLog, capNote>>
       \/ /\ pc[Main] = "reject_send"
          /\ \/ UNCHANGED <<peer, nfail, capNote>>
             \/ \E p \in Observe(arg[Main]) :
                   /\ Seen(arg[Main], p)
                   /\ capNote' = [capNote EXCEPT ![arg[Main]] =
                                    IF SendOK(arg[Main], p) THEN "sent" ELSE "failed"]
          /\ pc' = [pc EXCEPT ![Main] = "dc_pop"]
          /\ ctx' = [ctx EXCEPT ![Main] = "reject_exc"]
          /\ UNCHANGED <<sock, arg, popped, dcLog>>
       \/ /\ pc[Main] \in {"dc_pop", "dc_close"} /\ ctx[Main] = "reject"
          /\ \E closed \in (IF pc[Main] = "dc_close" THEN BOOLEAN ELSE {FALSE}) :
                sock' = IF closed THEN [sock EXCEPT ![arg[Main]] = "closed"]
                        ELSE sock
          /\ dcLog' = Ended(Main, TRUE)
          /\ pc' = [pc EXCEPT ![Main] = "ca_copy"]
          /\ arg' = [arg EXCEPT ![Main] = 0]
          /\ ctx' = [ctx EXCEPT ![Main] = "none"]
          /\ popped' = [popped EXCEPT ![Main] = None]
          /\ UNCHANGED <<peer, nfail, capNote>>
    /\ UNCHANGED <<env, keysize, entries, live, name, lock, iter, targets,
                   username, closing, nread>>
    /\ UNCHANGED <<everAdded, rejected, leaveCnt, atRemoval, chat, snaps,
                   ownSend, lost, typed>>

\* server.py:79  connections_to_close = dict(self.client_map)
CaCopy ==
    /\ pc[Main] = "ca_copy"
    /\ closing' = LiveSeq
    /\ pc' = [pc EXCEPT ![Main] = "ca_clear"]
    /\ UNCHANGED <<env, keysize, entries, live, name, lock, sock, peer, arg, ctx, popped, iter,
                   targets, username, nread, nfail>>
    /\ UNCHANGED hist

\* server.py:80  self.client_map.clear()
CaClear ==
    /\ pc[Main] = "ca_clear"
    /\ keysize' = 8
    /\ entries' = <<>>
    /\ live' = ClearKeys
    /\ name' = [c \in Conns |-> None]
    /\ pc' = [pc EXCEPT ![Main] = "ca_close"]
    /\ UNCHANGED <<env, lock, sock, peer, arg, ctx, popped, iter, targets, username,
                   closing, nread, nfail>>
    /\ UNCHANGED hist

\* server.py:81-85 and chatroom.py:116-119  one round of the closing loop:
\* shutdown and close.  An OSError of shutdown leaves close_all_connections,
\* is caught in main, and main closes the listening socket and returns, as it
\* does after the last round.  The handler threads are daemons: they end
\* with the process.
CaClose ==
    /\ pc[Main] = "ca_close"
    /\ IF closing = <<>>
       THEN /\ pc' = [pc EXCEPT ![Main] = "exited"]
            /\ UNCHANGED <<sock, closing, peer, nfail>>
       ELSE \E p \in Observe(Head(closing)) :
            /\ Seen(Head(closing), p)
            /\ IF ShutdownOK(Head(closing), p)
               THEN /\ sock' = [sock EXCEPT ![Head(closing)] = "closed"]
                    /\ closing' = Tail(closing)
                    /\ UNCHANGED pc
               ELSE /\ pc' = [pc EXCEPT ![Main] = "exited"]
                    /\ closing' = <<>>
                    /\ UNCHANGED sock
    /\ UNCHANGED <<env, keysize, entries, live, name, lock, arg, ctx, popped, iter,
                   targets, username, nread>>
    /\ UNCHANGED hist

---------------------------------------------------------------------------
Next ==
    \/ Accept \/ Gate \/ StartThread \/ RejectSend
    \/ Interrupt \/ CaCopy \/ CaClear \/ CaClose
    \/ \E t \in Threads : DcPop(t) \/ DcClose(t) \/ DcIter(t) \/ DcLeave(t)
    \/ \E c \in Conns : Handshake(c) \/ AddClient(c) \/ AddFail(c)
    \/ \E c \in Conns : JoinLock(c) \/ JoinNew(c) \/ JoinIter(c) \/ JoinFail(c)
    \/ \E c \in Conns : Recv(c) \/ Snapshot(c) \/ Fanout(c)

Spec == Init /\ [][Next]_vars

\* The same program where several peers are reset during a broadcast.
SpecBroken == InitBroken /\ [][Next]_vars

\* A step of the thread that holds CLIENTS_LOCK.  Only handlers hold it
\* across steps: in the join notice and in disconnect_client under `with`.
HolderStep ==
    \E c \in Conns :
        lock = c /\ (\/ JoinNew(c) \/ JoinIter(c)
                     \/ DcPop(c) \/ DcClose(c) \/ DcIter(c) \/ DcLeave(c))

\* The program when socket calls made under the lock complete and the
\* thread holding the lock is scheduled.
SpecFair == Init /\ [][Next]_vars /\ WF_vars(HolderStep)

\* The way of a connection to the registry (accept, gate, handshake,
\* add_client) when the peers type the usernames of RawInputs.
InitUsername == Start({Typing})
NextUsername ==
    \/ Accept \/ Gate \/ StartThread
    \/ \E c \in Conns : Handshake(c) \/ AddClient(c)
SpecUsername == InitUsername /\ [][NextUsername]_vars

---------------------------------------------------------------------------
\* Properties

\* Main is past Interrupt: close_all_connections has begun or main has ended.
ShutdownBegun == pc[Main] \in {"ca_copy", "ca_clear", "ca_close", "exited"}

\* Every connection of the scenario has arrived and every thread is at rest:
\* main blocks in accept, each handler blocks in recv or has ended.
Settled ==
    /\ pc[Main] = "accept"
    /\ \A c \in 1..env.conns : sock[c] # "new"
    /\ \A c \in Conns : pc[c] \in {"idle", "recv", "done", "crashed"}

\* r is a member whose peer is alive and whose socket the server has not
\* closed.
Connected(r) == r \in live /\ sock[r] = "open" /\ peer[r] = "alive"

\* The handler of s is through with its k-th message.
Relayed(s, k) ==
    \/ k < nread[s]
    \/ k = nread[s] /\ pc[s] \notin {"snapshot", "fanout"} /\ ctx[s] # "fanout"

Count(q, k) == Cardinality({i \in 1..Len(q) : q[i] = k})
Increasing(q) == \A i, j \in 1..Len(q) : i < j => q[i] < q[j]

\* C1: in every reachable state the registry (client_map) holds at most
\* MAX_CLIENTS entries.
C1_SizeAtMostMax == Cardinality(live) <= MAX_CLIENTS

\* The room is full and add_client has refused a connection that had passed
\* the gate of the accept loop.
C1_Witness == Size = MAX_CLIENTS /\ \E c \in Conns : rejected[c] = "add"

\* C2: when MAX_CLIENTS + K connections have arrived, no peer has failed and
\* every thread is at rest, the registry holds exactly MAX_CLIENTS members and
\* exactly K connections were sent the capacity notice.
C2_ExactSplit ==
    (env.conns > env.cap /\ nfail = 0 /\ Settled)
    => /\ Size = MAX_CLIENTS
       /\ Cardinality({c \in Conns : capNote[c] = "sent"}) = env.conns - env.cap

\* C3: once a disconnect_client call that removed member x has ended, every
\* connection that was in the registry when x was removed (and is still a
\* connected member) was sent exactly one leave notice for x.
C3_LeaveNoticeToAll ==
    \A x \in Conns :
        (\E e \in dcLog[x] : e.member)
        => \A y \in atRemoval[x] : Connected(y) => leaveCnt[x][y] = 1

\* C4: no leave notice is ever written for a connection that add_client
\* never inserted into the registry.
C4_NoLeaveForNonMember ==
    \A x \in Conns \ everAdded : \A y \in Conns : leaveCnt[x][y] = 0

\* add_client returned False for x, disconnect_client(x) has ended, and there
\* are members a leave notice could have gone to.
C4_Witness ==
    \E x \in Conns :
        /\ rejected[x] = "add"
        /\ \E e \in dcLog[x] : e.site = "add_fail"
        /\ live # {}

\* C5 as stated: the handler of S writes nothing to S's own connection while
\* it relays a message of S.
C5_NoSendOnOwnConnection ==
    /\ ownSend = {}
    /\ \A s \in Conns : chat[s][s] = <<>>

\* C5 as amended: no chat message of S is ever written to S's own connection.
C5_NoEcho == \A s \in Conns : chat[s][s] = <<>>

\* S has relayed a message to another member and got no echo.
C5_Witness ==
    \E s \in Conns : \E r \in Conns \ {s} :
        /\ Len(snaps[s]) > 0 /\ r \in snaps[s][1]
        /\ chat[s][r] # <<>> /\ chat[s][s] = <<>> /\ Relayed(s, 1)

\* C6: every message of S is written exactly once, and in the order sent, to
\* every other connection that was in the snapshot taken for it and is still
\* a connected member.
C6_ExactlyOnceInOrder ==
    \A s \in Conns : \A r \in Conns \ {s} :
        /\ Increasing(chat[s][r])
        /\ \A k \in 1..Len(snaps[s]) :
              (r \in snaps[s][k] /\ Relayed(s, k) /\ Connected(r))
              => Count(chat[s][r], k) = 1

\* C7: no broadcast is ended by a write failure while a recipient of its
\* snapshot that can be written to has not been written to.
C7_FanoutNotAborted == lost = {}

\* C8: the server closes a connection, or its handler ends, only when the
\* peer of that connection has failed, the connection was refused for
\* capacity, or the server shuts down.
C8_FailuresIsolated ==
    \A y \in Conns :
        (sock[y] = "closed" \/ pc[y] \in {"done", "crashed"})
        => (peer[y] # "alive" \/ rejected[y] # "no" \/ ShutdownBegun)

\* The calls of disconnect_client on x that removed it from the registry:
\* those that have ended and those under way.
Removers(x) ==
    {<<e.by, e.site>> : e \in {f \in dcLog[x] : f.member}}
    \cup {<<t, ctx[t]>> : t \in {u \in Threads :
             pc[u] \in {"dc_close", "dc_iter", "dc_leave"} /\ arg[u] = x
             /\ ~NotUsername(popped[u])}}

C9_State ==
    \A x \in Conns :
        /\ Cardinality(Removers(x)) <= 1
        /\ \A e \in dcLog[x] : (~e.member /\ e.by # Main) => ~e.raised
        /\ \A y \in Conns : leaveCnt[x][y] <= 1

C9_Step ==
    \A t \in Threads :
        (pc[t] = "dc_pop" /\ pc'[t] = "dc_close" /\ arg[t] \notin live)
        => UNCHANGED <<keysize, entries, live, name>>

\* C9: a disconnect_client call on a connection that is no longer in the
\* registry raises nothing, writes no leave notice and leaves the registry as
\* it is: at most one call ever removes a connection, a call of a handler
\* that removed nothing never raises, and no connection gets a second leave
\* notice.  (The call of main is the first and only one on a refused
\* connection; only a KeyboardInterrupt ends it with an exception.)
C9_SecondDisconnectQuiet == []C9_State /\ [][C9_Step]_vars

\* A broadcaster disconnected x after a failed write and sent the leave
\* notice; x's own handler then called disconnect_client(x) in its finally
\* and found nothing to remove.
C9_Witness ==
    \E x \in Conns : \E s \in Conns \ {x} :
        /\ \E e \in dcLog[x] : e.by = s /\ e.site = "fanout" /\ e.member
        /\ \E e \in dcLog[x] : e.by = x /\ e.site = "final" /\ ~e.member
        /\ leaveCnt[x][s] = 1

\* The steps of main between the gate and the end of disconnect_client.
RejectPcs == {"reject_send", "dc_pop", "dc_close", "dc_leave"}

\* C10: a connection accepted while the registry holds MAX_CLIENTS entries is
\* sent the capacity notice (the write fails only on a reset connection), its
\* socket is closed, also when the notice could not be sent, no handler is
\* started for it and it is never added: all this holds of every refused
\* connection that main is through with.
C10_RejectedAtGate ==
    \A c \in Conns :
        (rejected[c] = "gate" /\ ~(arg[Main] = c /\ pc[Main] \in RejectPcs))
        => /\ sock[c] = "closed"
           /\ capNote[c] \in {"sent", "failed"}
           /\ capNote[c] = "failed" => peer[c] = "reset"
           /\ pc[c] = "idle"
           /\ c \notin everAdded

\* Thread t's next step is a socket write or read: the handshake, recv, a
\* write of the broadcast loop or of the capacity notice, a write of the join
\* loop or the welcome line, or a write of the leave loop.
InSocketIO(t) ==
    \/ pc[t] \in {"handshake", "recv", "fanout", "reject_send"}
    \/ /\ pc[t] = "join_iter"
       /\ LET r == IterNext(iter[t]) IN
          r.kind = "stop" \/ (r.kind = "item" /\ r.conn # t)
    \/ pc[t] = "dc_leave" /\ IterNext(iter[t]).kind = "item"

\* C11: a thread that holds CLIENTS_LOCK is never at a socket write or read.
C11_NoIOUnderLock == \A t \in Threads : lock = t => ~InSocketIO(t)

\* Thread t is at a mutation of client_map (pop, clear) or at a full read or
\* iteration of it (the copy of close_all_connections, a round of the leave
\* loop) inside disconnect_client or close_all_connections.
AtRegistryAccess(t) ==
    \/ pc[t] \in {"dc_pop", "dc_iter", "dc_leave"}
    \/ t = Main /\ pc[t] \in {"ca_copy", "ca_clear"}

\* C12: a thread that mutates, copies or iterates client_map holds
\* CLIENTS_LOCK while it does.
C12_RegistryUnderLock == \A t \in Threads : AtRegistryAccess(t) => lock = t

\* process_username has returned for c in this step.
Processed(c) == pc[c] = "handshake" /\ pc'[c] = "add"

C13_Step ==
    \A c \in Conns :
        Processed(c) =>
            LET t == Strip(typed'[c])
                u == username'[c]
            IN /\ Len(t) > MAX_USERNAME_SIZE
                  => /\ Len(u) = MAX_USERNAME_SIZE
                     /\ \A i \in 1..MAX_USERNAME_SIZE : u[i] = t[i]
               /\ t = <<>> => (Size < 10 /\ u = <<85, 115, 101, 114, 95, 48 + Size>>)
               /\ (t # <<>> /\ Len(t) <= MAX_USERNAME_SIZE) => u = t

C13_State ==
    \A c \in Conns :
        username[c] # None
        => username[c] # <<>> /\ Len(username[c]) <= MAX_USERNAME_SIZE

\* C13: process_username returns the first MAX_USERNAME_SIZE characters of
\* the trimmed input when it is longer than that, User_<len(client_map)> when
\* it is empty, and the trimmed input itself otherwise; the result is never
\* empty and never longer than MAX_USERNAME_SIZE.
C13_UsernameRule == []C13_State /\ [][C13_Step]_vars

\* One client typed a name that was cut to MAX_USERNAME_SIZE characters,
\* another typed only whitespace while the registry held one entry.
C13_Witness ==
    \E c \in Conns : \E d \in Conns \ {c} :
        /\ typed[c] # None /\ Len(Strip(typed[c])) > MAX_USERNAME_SIZE
        /\ Len(username[c]) = MAX_USERNAME_SIZE
        /\ typed[d] # None /\ typed[d] # <<>> /\ Strip(typed[d]) = <<>>
        /\ username[d] = UserN(1)

\* add_client has returned for c in this step.
AddReturned(c) == pc[c] = "add" /\ pc'[c] # "add"

C14_Step ==
    \A c \in Conns :
        AddReturned(c) =>
            IF Cardinality(live) = MAX_CLIENTS
            THEN /\ pc'[c] = "add_fail"
                 /\ UNCHANGED <<keysize, entries, live, name>>
            ELSE /\ pc'[c] = "join_lock"
                 /\ c \notin live /\ live' = live \cup {c}
                 /\ LiveSeq' = Append(LiveSeq, c)
                 /\ name'[c] = username[c]
                 /\ \A d \in live : name'[d] = name[d]

\* C14: add_client returns False exactly when client_map already holds
\* MAX_CLIENTS entries, and then changes nothing; otherwise it inserts the
\* entry (client, username) and returns True, the test and the insertion
\* being one step.
C14_AddClientFrame == [][C14_Step]_vars

\* add_client has just returned False for c: the registry is full, c is not
\* in it, and every entry still maps to the name its handler gave.
C14_Witness ==
    \E c \in Conns :
        /\ pc[c] = "add_fail" /\ rejected[c] = "add" /\ c \notin live
        /\ Cardinality(live) = MAX_CLIENTS
        /\ \A d \in live : name[d] = username[d]

\* C15 as stated: disconnect_client removes the connection from client_map
\* only after it has shut down and closed the socket, so a thread that has
\* done the removal finds the socket closed.
C15_CloseThenRemove ==
    \A t \in Threads :
        (pc[t] = "dc_close" /\ ~NotUsername(popped[t])) => sock[arg[t]] = "closed"

C15_State ==
    \A t \in Threads :
        pc[t] \in {"dc_close", "dc_iter", "dc_leave"} => arg[t] \notin live

C15_Step ==
    /\ \A t \in Threads :
          (/\ pc[t] = "dc_close" /\ pc'[t] # "dc_close"
           /\ ~(ctx[t] = "reject" /\ pc'[t] = "ca_copy"))
          => arg[t] \notin live /\ sock'[arg[t]] = "closed"
    /\ \A x \in Conns :
          leaveCnt'[x] # leaveCnt[x] => x \notin live /\ sock[x] = "closed"

\* C15 as amended: disconnect_client first removes the connection from
\* client_map, then shuts down and closes the socket, and writes the leave
\* notices, if any, after both (a call cut short by KeyboardInterrupt aside).
C15_RemoveThenClose == []C15_State /\ [][C15_Step]_vars

\* A member was removed, its socket closed, and a leave notice for it written
\* to a member that was in the registry at the removal.
C15_Witness ==
    \E x \in everAdded : \E y \in atRemoval[x] :
        x \notin live /\ sock[x] = "closed" /\ leaveCnt[x][y] = 1

\* C16: when main has closed the listening socket after a KeyboardInterrupt,
\* no connection whose handler is still at work (in the handshake, joining or
\* a member of the room) is left with its socket open.
C16_AllClosedAtExit ==
    pc[Main] = "exited"
    => \A c \in Conns : sock[c] = "open" => pc[c] \in {"idle", "done", "crashed"}

\* The handler of c has called disconnect_client on its own connection and
\* the call has ended.
SelfDisconnected(c) == \E e \in dcLog[c] : e.by = c

\* C17: once a handler has disconnected its own connection it is never again
\* at a read of that connection or in a broadcast.
C17_ClosedIsTerminal ==
    \A c \in Conns :
        SelfDisconnected(c) => pc[c] \notin {"recv", "snapshot", "fanout"}

\* C18: every connection in client_map has a socket the server has neither
\* shut down nor closed.
C18_MembersOpen == \A c \in live : sock[c] = "open"

\* A member was disconnected: it is out of the registry and its socket is
\* closed, while another member is still in the registry.
C18_Witness ==
    \E x \in everAdded \ live :
        /\ sock[x] = "closed" /\ \E e \in dcLog[x] : e.member
        /\ live # {}

\* C19: while the handler of c has been added but has not yet begun
\* new_user_notification(c), no leave notice for c has been written.
C19_JoinBeforeLeave ==
    \A c \in Conns :
        pc[c] = "join_lock" => \A y \in Conns : leaveCnt[c][y] = 0

\* The positions at which a thread asks for CLIENTS_LOCK.
LockRequests == {"add", "add_fail", "join_lock", "join_fail", "snapshot", "gate"}

C20_State ==
    /\ lock \in {Free} \cup Conns
    /\ \A t \in Threads : pc[t] \in LockRequests => lock # t
    /\ \A t \in Threads :
          lock = t => /\ pc[t] \in {"join_new", "join_iter",
                                     "dc_pop", "dc_close", "dc_iter", "dc_leave"}
                      /\ pc[t] \notin {"join_new", "join_iter"}
                         => ctx[t] \in {"add_fail", "join_fail"}

\* C20: no thread asks for CLIENTS_LOCK while it holds it, the lock is held
\* only inside a `with CLIENTS_LOCK` block and never by a thread that has
\* left the block or ended, and, when the calls made under the lock
\* complete, a held lock is always released again (or the process ends).
C20_LockNeverStuck ==
    /\ []C20_State
    /\ \A t \in Conns : (lock = t) ~> (lock # t \/ ~Running)

\* The leave loop of a disconnect_client called under the lock (except
\* clause of the join notice) raised, the exception left the `with` block,
\* and the lock is free again.
C20_Witness ==
    /\ lock = Free
    /\ \E c \in Conns : \E e \in dcLog[c] :
          e.by = c /\ e.site = "join_fail" /\ e.raised

====
